---- MODULE Spec2Model ----
(***************************************************************************)
(* react-sub: SubscriptionManager (src/manager.ts), the render-tracking    *)
(* BaseSubscriptionContext (src/watch.tsx) and the global configuration    *)
(* (src/config.ts), as one state machine.                                  *)
(*                                                                         *)
(* A JavaScript object used as a map (Record<string, Q>) is modelled as    *)
(* the sequence of its own properties in Object.keys order, which for      *)
(* non-integer string keys is insertion order.  Context ids are            *)
(* String(idCount), integer-like keys, which Object.keys lists in          *)
(* ascending numeric order: CtxOrder.                                      *)
(***************************************************************************)
EXTENDS Naturals, Sequences, FiniteSets, TLC

VARIABLES
    noGetOutsideContext,          \* globalConfig.noGetOutsideContext
    currentContext,               \* watch.tsx: let currentContext
    resets,                       \* BaseSubscriptionContext.resets, per context
    retired,                      \* contexts whose componentWillUnmount has run
    watchedQueryKeysByContextId,  \* per manager: context id -> record key -> query
    watchedContexts,              \* per manager: context id -> context
    subscribedQueryKeys,          \* per manager: record key -> query
    pendingSubscriptionUpdate,    \* per manager: the pending flag
    deferred,                     \* per manager: callbacks handed to the deferral
                                  \* function that have not run yet
    cycleBase,                    \* history: nothing was watched or subscribed when
                                  \* the current reconciliation cycle began
    readCycle,                    \* history: queries registered by get in the cycle
    dropCycle,                    \* history: keys removed by a reset in the cycle
    failedBatch,                  \* history: keys of the batches a callback threw
                                  \* on, while the watched sets stay as they are
    latestSubscribed,             \* history: per manager, the keys whose latest call
                                  \* was a call of config.subscribe
    out                           \* what the last step did to the outside world

vars == <<noGetOutsideContext, currentContext, resets, retired,
          watchedQueryKeysByContextId, watchedContexts, subscribedQueryKeys,
          pendingSubscriptionUpdate, deferred, cycleBase, readCycle, dropCycle,
          failedBatch, latestSubscribed, out>>

----------------------------------------------------------------------------
(* Bounds and finite domains *)

\* cap of the count of outstanding deferred callbacks of one manager
MaxDeferred == 2
\* longest list passed to updateQueries(list)
MaxList == 2
\* longest list of pending reset callbacks of a context that code other than
\* the managers registers callbacks with
MaxResets == 3

Managers == {"m1", "m2"}
Contexts == {"1", "2"}
CtxOrder == <<"1", "2">>
\* reset callbacks that code other than a manager registers with a context
UserCallbacks == {"cb"}
None == "null"

Min(a, b) == IF a < b THEN a ELSE b
Range(s) == {s[i] : i \in 1..Len(s)}

----------------------------------------------------------------------------
(* Query values and the key codec *)

StrQ(s) == [type |-> "string", str |-> s]
Undefined == [type |-> "undefined", str |-> ""]
Null == [type |-> "null", str |-> ""]
KeyedObj(k) == [type |-> "keyed", str |-> k]
ToStringObj(s) == [type |-> "toString", str |-> s]
PlainObj == [type |-> "plain", str |-> ""]

\* JavaScript truthiness of a query value (!!q)
Truthy(q) ==
    CASE q.type = "string" -> q.str # ""
      [] q.type = "undefined" -> FALSE
      [] q.type = "null" -> FALSE
      [] OTHER -> TRUE

\* defaultQueryToString: [err, key]; err is TRUE where the function throws
defaultQueryToString(q) ==
    CASE q.type = "string" -> [err |-> FALSE, key |-> q.str]
      [] q.type = "undefined" -> [err |-> FALSE, key |-> ""]
      [] ~Truthy(q) -> [err |-> TRUE, key |-> ""]
      [] q.type = "keyed" -> [err |-> FALSE, key |-> q.str]
      [] q.type = "toString" -> [err |-> FALSE, key |-> q.str]
      [] OTHER -> [err |-> TRUE, key |-> ""]

\* SubscriptionManager.queryToString: no manager here configures an override
queryToString(m, q) == defaultQueryToString(q)

\* The queries each manager is called with: m1 is a manager of strings, m2 a
\* manager of undefined / object queries.  Each holds one value the codec
\* rejects.  On the values it accepts the codec is injective per manager
\* ("Unique stringified form for a query").
QueriesOf(m) ==
    IF m = "m1" THEN {StrQ(""), StrQ("a"), StrQ("b"), Null}
    ELSE {Undefined, KeyedObj("a"), ToStringObj("b"), PlainObj}

LegalQueriesOf(m) == {q \in QueriesOf(m) : ~queryToString(m, q).err}
KeyOf(m, q) == queryToString(m, q).key

\* the value config.get returns for a query
GetterValue(m, q) == <<"value", m, q>>

----------------------------------------------------------------------------
(* Records in Object.keys order *)

Entry(k, q) == [key |-> k, query |-> q]
Keys(rec) == {rec[i].key : i \in 1..Len(rec)}
Has(rec, k) == k \in Keys(rec)
Lookup(rec, k) == (CHOOSE i \in 1..Len(rec) : rec[i].key = k)
Put(rec, k, q) ==
    IF Has(rec, k)
    THEN [i \in 1..Len(rec) |-> IF rec[i].key = k THEN Entry(k, q) ELSE rec[i]]
    ELSE Append(rec, Entry(k, q))
Values(rec) == [i \in 1..Len(rec) |-> rec[i].query]

RECURSIVE PutAll(_, _)
PutAll(rec, es) ==
    IF es = <<>> THEN rec
    ELSE PutAll(Put(rec, Head(es).key, Head(es).query), Tail(es))

\* a function with one point removed / set
Without(f, x) == [y \in DOMAIN f \ {x} |-> f[y]]
With(f, x, v) == [y \in DOMAIN f \cup {x} |-> IF y = x THEN v ELSE f[y]]
NoEntries == [y \in {} |-> <<>>]

----------------------------------------------------------------------------
(* The record of one step's effects on the outside world *)

NoParam == [kind |-> "-", list |-> <<>>, accepts |-> {}]

\* op: the operation; m, ctx, q, param: its arguments; getter: the queries
\* config.get was called with; ret: the value returned; err: the error that
\* propagated; defer: per manager, how often the deferral function was invoked;
\* unsub / sub: the lists config.unsubscribe / config.subscribe were called with;
\* calls: those calls in the order they were made, each with the keys of the
\* manager's subscribedQueryKeys at the time of the call;
\* force: per context, how often forceUpdate was invoked;
\* fired: the reset callbacks invoked, in order, each with its argument and the
\* ambient current context at the time
Out(op, m, c, q) ==
    [op |-> op, m |-> m, ctx |-> c, q |-> q, param |-> NoParam,
     getter |-> <<>>, ret |-> <<>>, err |-> "none",
     defer |-> [x \in Managers |-> 0],
     unsub |-> <<>>, sub |-> <<>>, calls |-> <<>>,
     force |-> [x \in Contexts |-> 0], fired |-> <<>>]

\* the program state at the start of a step, with the step's blank record;
\* cur: the ambient current context during the step; cbThrows: a callback of
\* UserCallbacks throws when it is invoked in this step
World(o) ==
    [w |-> watchedQueryKeysByContextId, wc |-> watchedContexts,
     sk |-> subscribedQueryKeys, p |-> pendingSubscriptionUpdate,
     d |-> deferred, r |-> resets,
     cb |-> cycleBase, rc |-> readCycle, dc |-> dropCycle, o |-> o,
     cur |-> currentContext, cbThrows |-> FALSE]

\* the set of keys each context watches
KeySets(byId) == [c \in DOMAIN byId |-> {e.key : e \in Range(byId[c])}]

\* history: the batch of a call that threw joins failedBatch; a change of some
\* context's set of watched keys empties it
NoBatches == [unsubscribe |-> {}, subscribe |-> {}]
NoteFailed(s, m) ==
    LET last == s.o.calls[Len(s.o.calls)]
        batch == {queryToString(m, q).key : q \in Range(last.arg)}
        kept == IF KeySets(s.w[m]) # KeySets(watchedQueryKeysByContextId[m])
                THEN NoBatches ELSE failedBatch[m]
    IN IF s.o.op = "updateSubscriptions" /\ s.o.m = m /\ s.o.err # "none"
       THEN [kept EXCEPT ![last.fn] = @ \cup batch]
       ELSE kept

\* history: the keys whose latest call was a subscribe, once the calls of a
\* step of manager m have been made in their order, thrown or not
RECURSIVE NoteCalls(_, _, _)
NoteCalls(m, calls, latest) ==
    IF calls = <<>> THEN latest
    ELSE LET batch == {queryToString(m, q).key : q \in Range(Head(calls).arg)}
         IN NoteCalls(m, Tail(calls),
                      IF Head(calls).fn = "subscribe" THEN latest \cup batch
                      ELSE latest \ batch)

Commit(s) ==
    /\ failedBatch' = [m \in Managers |-> NoteFailed(s, m)]
    /\ latestSubscribed' =
          [m \in Managers |-> IF s.o.m = m
                              THEN NoteCalls(m, s.o.calls, latestSubscribed[m])
                              ELSE latestSubscribed[m]]
    /\ watchedQueryKeysByContextId' = s.w
    /\ watchedContexts' = s.wc
    /\ subscribedQueryKeys' = s.sk
    /\ pendingSubscriptionUpdate' = s.p
    /\ deferred' = s.d
    /\ resets' = s.r
    /\ cycleBase' = s.cb
    /\ readCycle' = s.rc
    /\ dropCycle' = s.dc
    /\ out' = s.o

\* a call of config.subscribe or config.unsubscribe of manager m joins the record
Call(s, m, fn, list) ==
    [s EXCEPT !.o.calls = Append(@, [fn |-> fn, arg |-> list,
                                     keys |-> {e.key : e \in Range(s.sk[m])}])]

\* every entry of every context's watched record, contexts in Object.keys order
RECURSIVE AllWatchedFrom(_, _)
AllWatchedFrom(byId, ids) ==
    IF ids = <<>> THEN <<>>
    ELSE (IF Head(ids) \in DOMAIN byId THEN byId[Head(ids)] ELSE <<>>)
         \o AllWatchedFrom(byId, Tail(ids))
AllWatched(byId) == AllWatchedFrom(byId, CtxOrder)
WatchedKeys(byId) == Keys(AllWatched(byId))

----------------------------------------------------------------------------
(* History of the current reconciliation cycle (not program state).  A cycle
   of a manager runs from one reconciliation to the next; the first get or
   reset after a reconciliation opens a new one. *)

OpenCycle(s, m) ==
    IF s.p[m] THEN s
    ELSE [s EXCEPT !.cb[m] = (WatchedKeys(s.w[m]) = {} /\ s.sk[m] = <<>>),
                   !.rc[m] = {}, !.dc[m] = {}]
\* the program state of s with the history of h
Noted(h, s) == [s EXCEPT !.cb = h.cb, !.rc = h.rc, !.dc = h.dc]
NoteRead(s, m, q) == [OpenCycle(s, m) EXCEPT !.rc[m] = @ \cup {q}]
NoteDrop(s, m, c) ==
    [OpenCycle(s, m) EXCEPT
        !.dc[m] = @ \cup (IF c \in DOMAIN s.w[m] THEN Keys(s.w[m][c]) ELSE {})]

----------------------------------------------------------------------------
(* SubscriptionManager *)

\* scheduleSubscriptionUpdate without the guard on the pending flag
scheduleSubscriptionUpdate_unguarded(s, m) ==
    [s EXCEPT !.p[m] = TRUE,
              !.d[m] = Min(@ + 1, MaxDeferred),
              !.o.defer[m] = @ + 1]

\* scheduleSubscriptionUpdate with one pending flag shared by all managers
scheduleSubscriptionUpdate_sharedFlag(s, m) ==
    IF \E x \in Managers : s.p[x] THEN s
    ELSE [s EXCEPT !.p = [x \in Managers |-> TRUE],
                   !.d[m] = Min(@ + 1, MaxDeferred),
                   !.o.defer[m] = @ + 1]

\* scheduleSubscriptionUpdate (manager.ts 234-242)
scheduleSubscriptionUpdate(s, m) ==
    IF s.p[m] THEN s
    ELSE [s EXCEPT !.p[m] = TRUE,
                   !.d[m] = Min(@ + 1, MaxDeferred),
                   !.o.defer[m] = @ + 1]

\* BaseSubscriptionContext.registerReset
registerReset(s, c, m) == [s EXCEPT !.r[c] = Append(@, m)]

\* registerQuery that makes the context's entry and registers the reset before
\* it converts the query
registerQuery_eager(s, m, c, q) ==
    LET k == queryToString(m, q)
        queryKeys == IF c \in DOMAIN s.w[m] THEN s.w[m][c] ELSE <<>>
        s1 == [s EXCEPT !.w[m] = With(@, c, queryKeys)]
        s2 == IF Len(queryKeys) = 0 THEN registerReset(s1, c, m) ELSE s1
    IN IF k.err THEN [s2 EXCEPT !.o.err = "codec"]
       ELSE [s2 EXCEPT !.w[m] = With(@, c, Put(queryKeys, k.key, q)),
                       !.wc[m] = @ \cup {c}]

\* registerQuery that does not record the context in watchedContexts
registerQuery_noContext(s, m, c, q) ==
    LET k == queryToString(m, q)
        queryKeys == IF c \in DOMAIN s.w[m] THEN s.w[m][c] ELSE <<>>
        s1 == IF Len(queryKeys) = 0 THEN registerReset(s, c, m) ELSE s
    IN IF k.err THEN [s EXCEPT !.o.err = "codec"]
       ELSE [s1 EXCEPT !.w[m] = With(@, c, Put(queryKeys, k.key, q))]

\* registerQuery (manager.ts 147-163); the conversion of the query comes
\* first and may throw
registerQuery(s, m, c, q) ==
    LET k == queryToString(m, q)
        queryKeys == IF c \in DOMAIN s.w[m] THEN s.w[m][c] ELSE <<>>
        s1 == IF Len(queryKeys) = 0 THEN registerReset(s, c, m) ELSE s
    IN IF k.err THEN [s EXCEPT !.o.err = "codec"]
       ELSE [s1 EXCEPT !.w[m] = With(@, c, Put(queryKeys, k.key, q)),
                       !.wc[m] = @ \cup {c}]

\* reset that forgets the context and cancels the scheduled reconciliation
\* instead of scheduling one
reset_cancels(s, m, c) ==
    [s EXCEPT !.w[m] = Without(@, c), !.wc[m] = @ \ {c}, !.p[m] = FALSE]

\* reset that forgets the context and schedules nothing
reset_noSchedule(s, m, c) ==
    [s EXCEPT !.w[m] = Without(@, c), !.wc[m] = @ \ {c}]

\* reset, the callback registered with a context (manager.ts 170-175)
reset(s, m, c) ==
    scheduleSubscriptionUpdate(
        [s EXCEPT !.w[m] = Without(@, c), !.wc[m] = @ \ {c}], m)

\* getContext that requires a context whatever the flag says
getContext_flagIgnored(ctxArg) ==
    LET cur == IF ctxArg # None THEN ctxArg ELSE currentContext
    IN [err |-> (cur = None), ctx |-> cur]

\* getContext (manager.ts 133-139): [err, ctx]
getContext(ctxArg) ==
    LET cur == IF ctxArg # None THEN ctxArg ELSE currentContext
    IN [err |-> (cur = None /\ noGetOutsideContext), ctx |-> cur]

\* the rest of get that registers the query and schedules nothing
afterGetter_noSchedule(s, m, q, ctxArg) ==
    LET gc == getContext(ctxArg)
        s2 == registerQuery(s, m, gc.ctx, q)
    IN IF gc.err THEN [s EXCEPT !.o.err = "misuse"]
       ELSE IF gc.ctx = None THEN [s EXCEPT !.o.ret = <<GetterValue(m, q)>>]
       ELSE IF s2.o.err # "none" THEN s2
       ELSE [Noted(NoteRead(s, m, q), s2) EXCEPT !.o.ret = <<GetterValue(m, q)>>]

\* the rest of get once config.get has returned (manager.ts 111-117)
afterGetter(s, m, q, ctxArg) ==
    LET gc == getContext(ctxArg)
        s2 == registerQuery(s, m, gc.ctx, q)
    IN IF gc.err THEN [s EXCEPT !.o.err = "misuse"]
       ELSE IF gc.ctx = None THEN [s EXCEPT !.o.ret = <<GetterValue(m, q)>>]
       ELSE IF s2.o.err # "none" THEN s2
       ELSE [scheduleSubscriptionUpdate(Noted(NoteRead(s, m, q), s2), m)
             EXCEPT !.o.ret = <<GetterValue(m, q)>>]

\* get that looks for the context before it calls config.get
get_contextFirst(s, m, q, ctxArg, getterThrows) ==
    IF getContext(ctxArg).err THEN [s EXCEPT !.o.err = "misuse"]
    ELSE IF getterThrows
    THEN [s EXCEPT !.o.getter = Append(@, q), !.o.err = "getter"]
    ELSE afterGetter([s EXCEPT !.o.getter = Append(@, q)], m, q, ctxArg)

\* get (manager.ts 106-118); getterThrows: config.get throws for this call
get(s, m, q, ctxArg, getterThrows) ==
    LET s1 == [s EXCEPT !.o.getter = Append(@, q)]
    IN IF getterThrows THEN [s1 EXCEPT !.o.err = "getter"]
       ELSE afterGetter(s1, m, q, ctxArg)

\* toSubscribe with the test !this.subscribedQueryKeys[key] in place of
\* hasOwnProperty: a subscribed falsy query counts as not subscribed
toSubscribeOf_truthy(subscribed, all) ==
    PutAll(<<>>, SelectSeq(all, LAMBDA e :
        ~(Has(subscribed, e.key) /\ Truthy(subscribed[Lookup(subscribed, e.key)].query))))

\* toSubscribe without the test of subscribedQueryKeys: every watched entry is
\* subscribed again
toSubscribeOf_all(subscribed, all) ==
    PutAll(<<>>, all)

\* toSubscribe as a list with one element per watched entry, not a record
\* keyed by the query key
toSubscribeOf_perEntry(subscribed, all) ==
    SelectSeq(all, LAMBDA e : ~Has(subscribed, e.key))

\* the first loop of updateSubscriptions (manager.ts 191-201): toSubscribe,
\* from all the watched entries
toSubscribeOf(subscribed, all) ==
    PutAll(<<>>, SelectSeq(all, LAMBDA e : ~Has(subscribed, e.key)))

\* toUnsubscribe that skips a falsy key (key && !keysBeingWatched.hasOwnProperty(key))
toUnsubscribeOf_truthyKey(subscribed, keysBeingWatched) ==
    SelectSeq(subscribed, LAMBDA e : e.key # "" /\ ~Has(keysBeingWatched, e.key))

\* the second loop (manager.ts 203-208): toUnsubscribe
toUnsubscribeOf(subscribed, keysBeingWatched) ==
    SelectSeq(subscribed, LAMBDA e : ~Has(keysBeingWatched, e.key))

\* updateSubscriptions body that processes the subscribes before the
\* unsubscribes
reconcile_subscribeFirst(s0, m, unsubThrows, subThrows) ==
    LET all == AllWatched(s0.w[m])
        keysBeingWatched == PutAll(<<>>, all)
        toSubscribe == toSubscribeOf(s0.sk[m], all)
        toUnsubscribe == toUnsubscribeOf(s0.sk[m], keysBeingWatched)
        toUnsubscribeQueries == Values(toUnsubscribe)
        toSubscribeQueries == Values(toSubscribe)
        s1 == [s0 EXCEPT !.sk[m] = PutAll(@, toSubscribe)]
        s2 == IF Len(toSubscribeQueries) > 0
              THEN [Call(s1, m, "subscribe", toSubscribeQueries)
                    EXCEPT !.o.sub = Append(@, toSubscribeQueries)]
              ELSE s1
        s3 == [s2 EXCEPT
                 !.sk[m] = SelectSeq(@, LAMBDA e : ~Has(toUnsubscribe, e.key))]
        s4 == IF Len(toUnsubscribeQueries) > 0
              THEN [Call(s3, m, "unsubscribe", toUnsubscribeQueries)
                    EXCEPT !.o.unsub = Append(@, toUnsubscribeQueries)]
              ELSE s3
    IN IF Len(toSubscribeQueries) > 0 /\ subThrows
       THEN [s2 EXCEPT !.o.err = "subscribe"]
       ELSE IF Len(toUnsubscribeQueries) > 0 /\ unsubThrows
       THEN [s4 EXCEPT !.o.err = "unsubscribe"]
       ELSE s4

\* the body of updateSubscriptions that passes the keys nobody watches to
\* unsubscribe and leaves them in subscribedQueryKeys
reconcile_noDelete(s0, m, unsubThrows, subThrows) ==
    LET all == AllWatched(s0.w[m])
        keysBeingWatched == PutAll(<<>>, all)
        toSubscribe == toSubscribeOf(s0.sk[m], all)
        toUnsubscribe == toUnsubscribeOf(s0.sk[m], keysBeingWatched)
        toUnsubscribeQueries == Values(toUnsubscribe)
        toSubscribeQueries == Values(toSubscribe)
        s2 == IF Len(toUnsubscribeQueries) > 0
              THEN [Call(s0, m, "unsubscribe", toUnsubscribeQueries)
                    EXCEPT !.o.unsub = Append(@, toUnsubscribeQueries)]
              ELSE s0
        s3 == [s2 EXCEPT !.sk[m] = PutAll(@, toSubscribe)]
        s4 == IF Len(toSubscribeQueries) > 0
              THEN [Call(s3, m, "subscribe", toSubscribeQueries)
                    EXCEPT !.o.sub = Append(@, toSubscribeQueries)]
              ELSE s3
    IN IF Len(toUnsubscribeQueries) > 0 /\ unsubThrows
       THEN [s2 EXCEPT !.o.err = "unsubscribe"]
       ELSE IF Len(toSubscribeQueries) > 0 /\ subThrows
       THEN [s4 EXCEPT !.o.err = "subscribe"]
       ELSE s4

\* the body of updateSubscriptions after the pending flag is cleared
\* (manager.ts 184-227); unsubThrows / subThrows: the callback throws if it is
\* called in this reconciliation
reconcile(s0, m, unsubThrows, subThrows) ==
    LET all == AllWatched(s0.w[m])
        keysBeingWatched == PutAll(<<>>, all)
        toSubscribe == toSubscribeOf(s0.sk[m], all)
        toUnsubscribe == toUnsubscribeOf(s0.sk[m], keysBeingWatched)
        toUnsubscribeQueries == Values(toUnsubscribe)
        toSubscribeQueries == Values(toSubscribe)
        s1 == [s0 EXCEPT
                 !.sk[m] = SelectSeq(@, LAMBDA e : ~Has(toUnsubscribe, e.key))]
        s2 == IF Len(toUnsubscribeQueries) > 0
              THEN [Call(s1, m, "unsubscribe", toUnsubscribeQueries)
                    EXCEPT !.o.unsub = Append(@, toUnsubscribeQueries)]
              ELSE s1
        s3 == [s2 EXCEPT !.sk[m] = PutAll(@, toSubscribe)]
        s4 == IF Len(toSubscribeQueries) > 0
              THEN [Call(s3, m, "subscribe", toSubscribeQueries)
                    EXCEPT !.o.sub = Append(@, toSubscribeQueries)]
              ELSE s3
    IN IF Len(toUnsubscribeQueries) > 0 /\ unsubThrows
       THEN [s2 EXCEPT !.o.err = "unsubscribe"]
       ELSE IF Len(toSubscribeQueries) > 0 /\ subThrows
       THEN [s4 EXCEPT !.o.err = "subscribe"]
       ELSE s4

\* updateSubscriptions that clears the pending flag only once the unsubscribe
\* call has returned
updateSubscriptions_flagAfterUnsubscribe(s, m, unsubThrows, subThrows) ==
    LET r == reconcile(s, m, unsubThrows, subThrows)
    IN IF r.o.err = "unsubscribe" THEN r ELSE [r EXCEPT !.p[m] = FALSE]

\* updateSubscriptions that restores subscribedQueryKeys when a callback throws
updateSubscriptions_rollback(s, m, unsubThrows, subThrows) ==
    LET r == reconcile([s EXCEPT !.p[m] = FALSE], m, unsubThrows, subThrows)
    IN IF r.o.err # "none" THEN [r EXCEPT !.sk[m] = s.sk[m]] ELSE r

\* updateSubscriptions that clears the pending flag last, so that a throwing
\* callback leaves it set
updateSubscriptions_flagLast(s, m, unsubThrows, subThrows) ==
    LET r == reconcile(s, m, unsubThrows, subThrows)
    IN IF r.o.err = "none" THEN [r EXCEPT !.p[m] = FALSE] ELSE r

\* updateSubscriptions (manager.ts 180-228): the pending flag is cleared first
updateSubscriptions(s, m, unsubThrows, subThrows) ==
    reconcile([s EXCEPT !.p[m] = FALSE], m, unsubThrows, subThrows)

\* the test function updateQueries builds from its parameter, applied to a
\* watched query (manager.ts 254-263): "T", "F", or "E" where the codec throws
\* on an element of the list
RECURSIVE findParam(_, _, _)
findParam(m, list, q) ==
    IF list = <<>> THEN [err |-> FALSE, found |-> FALSE, p |-> Undefined]
    ELSE IF queryToString(m, Head(list)).err
    THEN [err |-> TRUE, found |-> FALSE, p |-> Undefined]
    ELSE IF KeyOf(m, Head(list)) = KeyOf(m, q)
    THEN [err |-> FALSE, found |-> TRUE, p |-> Head(list)]
    ELSE findParam(m, Tail(list), q)

testFn(m, param, q) ==
    CASE param.kind = "none" -> "T"
      [] param.kind = "list" ->
            LET f == findParam(m, param.list, q)
            IN IF f.err THEN "E"
               ELSE IF f.found /\ Truthy(f.p) THEN "T" ELSE "F"
      [] OTHER -> IF q \in param.accepts THEN "T" ELSE "F"

\* Object.keys(queryKeys).find(key => testFn(queryKeys[key])) (manager.ts 269-271)
RECURSIVE findKey(_, _, _)
findKey(m, param, queryKeys) ==
    IF queryKeys = <<>> THEN [err |-> FALSE, found |-> FALSE, key |-> ""]
    ELSE LET t == testFn(m, param, Head(queryKeys).query)
         IN IF t = "E" THEN [err |-> TRUE, found |-> FALSE, key |-> ""]
            ELSE IF t = "T"
            THEN [err |-> FALSE, found |-> TRUE, key |-> Head(queryKeys).key]
            ELSE findKey(m, param, Tail(queryKeys))

\* doUpdate = !!(the key found): the empty string is falsy
doUpdate(f) == f.found /\ f.key # ""

\* the forEach of updateQueries over the context ids (manager.ts 267-281)
RECURSIVE updateEach(_, _, _, _)
updateEach(s, m, param, ids) ==
    IF ids = <<>> THEN s
    ELSE IF Head(ids) \notin DOMAIN s.w[m]
    THEN updateEach(s, m, param, Tail(ids))
    ELSE LET f == findKey(m, param, s.w[m][Head(ids)])
         IN IF f.err THEN [s EXCEPT !.o.err = "codec"]
            ELSE IF ~doUpdate(f) THEN updateEach(s, m, param, Tail(ids))
            ELSE IF Head(ids) \notin s.wc[m]
            THEN [s EXCEPT !.o.err = "internal"]
            ELSE updateEach([s EXCEPT !.o.force[Head(ids)] = @ + 1],
                            m, param, Tail(ids))

\* updateQueries (manager.ts 253-282)
updateQueries(s, m, param) == updateEach(s, m, param, CtxOrder)

----------------------------------------------------------------------------
(* BaseSubscriptionContext *)

\* this.resets.forEach(reset => reset(this)) (manager.ts 672-674): every
\* registered callback in order; a callback that throws ends the loop
RECURSIVE fireResets(_, _, _)
fireResets(s, list, c) ==
    IF list = <<>> THEN s
    ELSE LET s1 == [s EXCEPT !.o.fired =
                       Append(@, [cb |-> Head(list), arg |-> c, ambient |-> s.cur])]
         IN IF Head(list) \in UserCallbacks
            THEN (IF s.cbThrows THEN [s1 EXCEPT !.o.err = "reset"]
                  ELSE fireResets(s1, Tail(list), c))
            ELSE fireResets(reset(NoteDrop(s1, Head(list), c), Head(list), c),
                            Tail(list), c)

\* reset() (manager.ts 671-676): the callbacks are invoked, then the list is
\* emptied; where a callback throws the assignment is not reached
contextReset(s, c) ==
    LET fired == fireResets(s, s.r[c], c)
    IN IF fired.o.err # "none" THEN fired ELSE [fired EXCEPT !.r[c] = <<>>]

----------------------------------------------------------------------------
(* Initial state: two managers and two contexts just constructed *)

Init ==
    /\ noGetOutsideContext = TRUE
    /\ currentContext = None
    /\ resets = [c \in Contexts |-> <<>>]
    /\ retired = {}
    /\ watchedQueryKeysByContextId = [m \in Managers |-> NoEntries]
    /\ watchedContexts = [m \in Managers |-> {}]
    /\ subscribedQueryKeys = [m \in Managers |-> <<>>]
    /\ pendingSubscriptionUpdate = [m \in Managers |-> FALSE]
    /\ deferred = [m \in Managers |-> 0]
    /\ cycleBase = [m \in Managers |-> TRUE]
    /\ readCycle = [m \in Managers |-> {}]
    /\ dropCycle = [m \in Managers |-> {}]
    /\ failedBatch = [m \in Managers |-> NoBatches]
    /\ latestSubscribed = [m \in Managers |-> {}]
    /\ out = Out("init", "-", None, <<>>)

----------------------------------------------------------------------------
(* Actions *)

\* manager.get(query, context?) called by the render function of the current
\* context or by other code
Get(m, q, ctxArg, getterThrows) ==
    /\ Commit(get(World(Out("get", m, ctxArg, <<q>>)), m, q, ctxArg, getterThrows))
    /\ UNCHANGED <<noGetOutsideContext, currentContext, retired>>

\* render() up to the call of renderContent: the context becomes current and
\* its resets fire (manager.ts 644-648)
RenderBegin(c) ==
    /\ currentContext = None
    /\ c \notin retired
    /\ currentContext' = c
    /\ Commit(contextReset([World(Out("render", "-", c, <<>>)) EXCEPT !.cur = c], c))
    /\ UNCHANGED <<noGetOutsideContext, retired>>

\* renderContent returns or throws: the finally block (manager.ts 650-653)
RenderEnd(c) ==
    /\ currentContext = c
    /\ currentContext' = None
    /\ Commit(World(Out("renderEnd", "-", c, <<>>)))
    /\ UNCHANGED <<noGetOutsideContext, retired>>

\* context.registerReset(cb) called by code other than a manager
\* (manager.ts 666-668)
RegisterReset(c, cb) ==
    /\ c \notin retired
    /\ Len(resets[c]) < MaxResets
    /\ Commit(registerReset(World(Out("registerReset", "-", c, <<>>)), c, cb))
    /\ UNCHANGED <<noGetOutsideContext, currentContext, retired>>

\* render() in which this.reset() throws, with a finally block that leaves
\* currentContext as it is
RenderFailed_noFinally(c) ==
    /\ currentContext = None
    /\ c \notin retired
    /\ LET r == contextReset([World(Out("render", "-", c, <<>>))
                                 EXCEPT !.cur = c, !.cbThrows = TRUE], c)
       IN r.o.err # "none" /\ Commit(r)
    /\ currentContext' = c
    /\ UNCHANGED <<noGetOutsideContext, retired>>

\* render() in which this.reset() throws: renderContent is not called and the
\* finally block runs (manager.ts 644-654)
RenderFailed(c) ==
    /\ currentContext = None
    /\ c \notin retired
    /\ LET r == contextReset([World(Out("render", "-", c, <<>>))
                                 EXCEPT !.cur = c, !.cbThrows = TRUE], c)
       IN r.o.err # "none" /\ Commit(r)
    /\ currentContext' = None
    /\ UNCHANGED <<noGetOutsideContext, retired>>

\* renderContent throws: the finally block (manager.ts 650-653)
RenderThrows(c) ==
    /\ currentContext = c
    /\ currentContext' = None
    /\ Commit([World(Out("renderEnd", "-", c, <<>>)) EXCEPT !.o.err = "render"])
    /\ UNCHANGED <<noGetOutsideContext, retired>>

\* componentWillUnmount that does not call reset()
ComponentWillUnmount_noReset(c) ==
    /\ currentContext = None
    /\ c \notin retired
    /\ retired' = retired \cup {c}
    /\ Commit(World(Out("componentWillUnmount", "-", c, <<>>)))
    /\ UNCHANGED <<noGetOutsideContext, currentContext>>

\* componentWillUnmount (manager.ts 657-659)
ComponentWillUnmount(c) ==
    /\ currentContext = None
    /\ c \notin retired
    /\ retired' = retired \cup {c}
    /\ Commit(contextReset(World(Out("componentWillUnmount", "-", c, <<>>)), c))
    /\ UNCHANGED <<noGetOutsideContext, currentContext>>

\* the deferral function runs a callback it was handed: updateSubscriptions
RunDeferred(m, unsubThrows, subThrows) ==
    /\ currentContext = None
    /\ deferred[m] > 0
    /\ LET s == World(Out("updateSubscriptions", m, None, <<>>))
       IN \E r \in {updateSubscriptions([s EXCEPT !.d[m] = @ - 1],
                                        m, unsubThrows, subThrows)} : Commit(r)
    /\ UNCHANGED <<noGetOutsideContext, currentContext, retired>>

\* manager.updateQueries(param)
UpdateQueries(m, param) ==
    /\ currentContext = None
    /\ Commit(updateQueries(
           [World(Out("updateQueries", m, None, <<>>)) EXCEPT !.o.param = param],
           m, param))
    /\ UNCHANGED <<noGetOutsideContext, currentContext, retired>>

\* config.noGetOutsideContext = b
SetConfig(b) ==
    /\ currentContext = None
    /\ noGetOutsideContext # b
    /\ noGetOutsideContext' = b
    /\ Commit(World(Out("config", "-", None, <<>>)))
    /\ UNCHANGED <<currentContext, retired>>

\* the parameters of updateQueries: none, a list, a predicate (the set of
\* queries it accepts)
Lists(m) == UNION {[1..n -> QueriesOf(m)] : n \in 0..MaxList}
Params(m) ==
    {[kind |-> "none", list |-> <<>>, accepts |-> {}]}
    \cup {[kind |-> "list", list |-> l, accepts |-> {}] : l \in Lists(m)}
    \cup {[kind |-> "fn", list |-> <<>>, accepts |-> a] : a \in SUBSET LegalQueriesOf(m)}

\* the queries the render function of context c reads from manager m
Reads(m, c) ==
    IF m = "m1"
    THEN (IF c = "1" THEN {StrQ(""), StrQ("a"), StrQ("b")} ELSE {StrQ("a"), StrQ("")})
    ELSE (IF c = "1" THEN {Undefined, KeyedObj("a"), PlainObj}
          ELSE {ToStringObj("b"), PlainObj})

\* manager.get(query) called by the render function of the current context
RenderGet(m, q, c) ==
    /\ currentContext = c
    /\ Get(m, q, None, FALSE)

\* Rendering, unmounting and reconciliation of the string manager m1; the
\* subscribe and unsubscribe callbacks may throw
Next ==
    \/ \E c \in Contexts : \E q \in Reads("m1", c) : RenderGet("m1", q, c)
    \/ \E c \in Contexts : RenderBegin(c)
    \/ \E c \in Contexts : RenderEnd(c)
    \/ \E c \in Contexts : ComponentWillUnmount(c)
    \/ \E ut \in BOOLEAN, st \in BOOLEAN : RunDeferred("m1", ut, st)

Spec == Init /\ [][Next]_vars

\* get in all its forms on the object manager m2: with the ambient context, an
\* explicit context or none, a getter that may throw, queries the codec
\* rejects, and the require-context flag switched on and off
\* manager.get(query, context?) in any of its forms; a context reads its own
\* queries
AnyGet(m, q, ctxArg, getterThrows) ==
    /\ LET c == IF ctxArg # None THEN ctxArg ELSE currentContext
       IN q \in (IF c = None THEN QueriesOf(m) ELSE Reads(m, c))
    /\ Get(m, q, ctxArg, getterThrows)

NextGet ==
    \/ \E q \in QueriesOf("m2"), c \in Contexts \cup {None}, t \in BOOLEAN :
          AnyGet("m2", q, c, t)
    \/ \E c \in Contexts : RenderBegin(c)
    \/ \E c \in Contexts : RenderEnd(c)
    \/ RunDeferred("m2", FALSE, FALSE)
    \/ \E b \in BOOLEAN : SetConfig(b)

SpecGet == Init /\ [][NextGet]_vars

\* updateQueries of m1 in its three forms between renders
NextUpdate ==
    \/ \E c \in Contexts : \E q \in Reads("m1", c) \ {StrQ("b")} : RenderGet("m1", q, c)
    \/ \E c \in Contexts : RenderBegin(c)
    \/ \E c \in Contexts : RenderEnd(c)
    \/ RunDeferred("m1", FALSE, FALSE)
    \/ \E param \in Params("m1") : UpdateQueries("m1", param)

SpecUpdate == Init /\ [][NextUpdate]_vars

\* the queries the render function of context c reads from manager m where it
\* reads from both managers; the two managers have keys in common
ReadsBoth(m, c) ==
    IF m = "m1"
    THEN (IF c = "1" THEN {StrQ("a")} ELSE {StrQ("a"), StrQ("")})
    ELSE (IF c = "1" THEN {KeyedObj("a")} ELSE {Undefined})

\* Two managers read by the same render functions, each with its own deferral
\* function (manager.ts 298-323, 344-368)
NextBoth ==
    \/ \E m \in Managers : \E c \in Contexts : \E q \in ReadsBoth(m, c) :
          RenderGet(m, q, c)
    \/ \E c \in Contexts : RenderBegin(c)
    \/ \E c \in Contexts : RenderEnd(c)
    \/ \E c \in Contexts : ComponentWillUnmount(c)
    \/ \E m \in Managers : RunDeferred(m, FALSE, FALSE)

SpecBoth == Init /\ [][NextBoth]_vars

\* manager.get(query, context) called outside any render with an explicit
\* context; a context is handed its own queries
ExplicitGet(m, q, c) ==
    /\ currentContext = None
    /\ c \notin retired
    /\ Get(m, q, c, FALSE)

\* Gets of m1 with an explicit context, which may register a key again without
\* a reset before, resets by render passes, and callbacks that may throw
NextExplicit ==
    \/ \E c \in Contexts : \E q \in Reads("m1", c) : ExplicitGet("m1", q, c)
    \/ \E c \in Contexts : RenderBegin(c)
    \/ \E c \in Contexts : RenderEnd(c)
    \/ \E ut \in BOOLEAN, st \in BOOLEAN : RunDeferred("m1", ut, st)

SpecExplicit == Init /\ [][NextExplicit]_vars

\* manager.get(query) called by the render function of the current context,
\* whose list of pending resets is not full
BoundedRenderGet(m, q, c) ==
    /\ Len(resets[c]) < MaxResets
    /\ RenderGet(m, q, c)

\* manager.get(query) called by code that runs outside any render
OutsideGet(m, q) ==
    /\ currentContext = None
    /\ Get(m, q, None, FALSE)

\* Contexts with which other code registers reset callbacks that may throw,
\* render functions that may throw, and gets inside and outside renders
NextContext ==
    \/ \E c \in Contexts : \E q \in Reads("m1", c) \ {StrQ("b")} :
          BoundedRenderGet("m1", q, c)
    \/ OutsideGet("m1", StrQ("a"))
    \/ \E c \in Contexts : \E cb \in UserCallbacks : RegisterReset(c, cb)
    \/ \E c \in Contexts : RenderBegin(c)
    \/ \E c \in Contexts : RenderFailed(c)
    \/ \E c \in Contexts : RenderEnd(c)
    \/ \E c \in Contexts : RenderThrows(c)
    \/ \E c \in Contexts : ComponentWillUnmount(c)
    \/ RunDeferred("m1", FALSE, FALSE)

SpecContext == Init /\ [][NextContext]_vars

\* Rendering, unmounting and reconciliation of m1 with callbacks that do not
\* throw.  A render function is synchronous and ends; the deferral function
\* (requestAnimationFrame, or config.updateSubscription) runs every callback it
\* is handed, between renders
NextLive ==
    \/ \E c \in Contexts : \E q \in ReadsBoth("m1", c) : RenderGet("m1", q, c)
    \/ \E c \in Contexts : RenderBegin(c)
    \/ \E c \in Contexts : RenderEnd(c)
    \/ \E c \in Contexts : ComponentWillUnmount(c)
    \/ RunDeferred("m1", FALSE, FALSE)

SpecLive ==
    /\ Init /\ [][NextLive]_vars
    /\ \A c \in Contexts : WF_vars(RenderEnd(c))
    /\ SF_vars(RunDeferred("m1", FALSE, FALSE))

----------------------------------------------------------------------------
(* Vocabulary of the properties *)

\* the queries, and their keys, of the lists passed in the calls of one step
CallQueries(calls) == UNION {Range(calls[i]) : i \in 1..Len(calls)}
CallKeys(m, calls) == {KeyOf(m, q) : q \in CallQueries(calls)}
\* how often key k was passed in the calls of one step
Times(m, calls, k) ==
    Cardinality({ij \in UNION {{<<i, j>> : j \in 1..Len(calls[i])} : i \in 1..Len(calls)} :
                    KeyOf(m, calls[ij[1]][ij[2]]) = k})
AllKeys(m) == {KeyOf(m, q) : q \in LegalQueriesOf(m)}
\* the keys registered by get in the cycle
ReadKeys(m) == {KeyOf(m, q) : q \in readCycle[m]}

\* the step being taken is a reconciliation of m / a successful get of m with
\* a context / a reset of context c (a render pass starting, or retirement)
Reconciling(m) == out'.op = "updateSubscriptions" /\ out'.m = m
GettingWithContext(m) ==
    out'.op = "get" /\ out'.m = m /\ out'.err = "none" /\ out'.ret # <<>>
        /\ (out'.ctx # None \/ currentContext # None)
Resetting == out'.op \in {"render", "componentWillUnmount"}
\* ... a get with no explicit and no ambient context
GettingWithoutContext ==
    out'.op = "get" /\ out'.ctx = None /\ currentContext = None

\* the cycle of m that is open (or was just closed by a reconciliation) began
\* with nothing watched and nothing subscribed and has seen only gets
PureBatch(m) == cycleBase[m] /\ dropCycle[m] = {} /\ readCycle[m] # {}

----------------------------------------------------------------------------
(* C1 - Batching.  In a cycle of a manager that starts with nothing watched,
   subscribed or pending and consists of gets with a context (from one or
   several contexts) for N >= 1 distinct queries: the deferral function is
   invoked by the first get and by no later one, so exactly one deferred
   callback is outstanding; no get issues a subscribe or unsubscribe call;
   and the reconciliation that then runs issues exactly one subscribe call,
   whose list holds exactly the N queries, each once, and no unsubscribe. *)
C1_Batching ==
    [][\A m \in Managers :
        /\ out'.op = "get" => out'.sub = <<>> /\ out'.unsub = <<>>
        /\ GettingWithContext(m) =>
              out'.defer[m] = (IF pendingSubscriptionUpdate[m] THEN 0 ELSE 1)
        /\ (Reconciling(m) /\ pendingSubscriptionUpdate[m] /\ PureBatch(m)) =>
              /\ deferred[m] = 1 /\ deferred'[m] = 0
              /\ Len(out'.sub) = 1
              /\ Range(out'.sub[1]) = readCycle[m]
              /\ Len(out'.sub[1]) = Cardinality(readCycle[m])
              /\ out'.unsub = <<>>]_vars

\* a reconciliation has subscribed a batch of three queries read by two contexts
C1_Witness ==
    /\ out.op = "updateSubscriptions" /\ out.m = "m1"
    /\ PureBatch("m1")
    /\ Cardinality(readCycle["m1"]) = 3
    /\ Len(out.sub) = 1 /\ Len(out.sub[1]) = 3
    /\ DOMAIN watchedQueryKeysByContextId["m1"] = Contexts
    /\ Keys(watchedQueryKeysByContextId["m1"]["1"])
         \cap Keys(watchedQueryKeysByContextId["m1"]["2"]) = {}

----------------------------------------------------------------------------
(* C2 - Diffing, as claimed: every reconciliation passes to subscribe exactly
   the keys watched by some context and not in subscribedKeys, and to
   unsubscribe exactly the keys in subscribedKeys that no context watches. *)
C2_AsClaimed ==
    [][\A m \in Managers : Reconciling(m) =>
        /\ CallKeys(m, out'.sub) =
              WatchedKeys(watchedQueryKeysByContextId[m])
                 \ Keys(subscribedQueryKeys[m])
        /\ CallKeys(m, out'.unsub) =
              Keys(subscribedQueryKeys[m])
                 \ WatchedKeys(watchedQueryKeysByContextId[m])]_vars

(* C2 - Diffing, amended: every reconciliation passes to unsubscribe exactly
   the keys in subscribedKeys that no context watches; unless that unsubscribe
   call throws, it passes to subscribe exactly the keys watched by some context
   and not in subscribedKeys, and when it throws no subscribe call is made.  A
   key both watched and subscribed is passed to neither callback. *)
C2_Diffing ==
    [][\A m \in Managers : Reconciling(m) =>
        LET watched == WatchedKeys(watchedQueryKeysByContextId[m])
            subscribed == Keys(subscribedQueryKeys[m])
        IN /\ CallKeys(m, out'.unsub) = subscribed \ watched
           /\ out'.err # "unsubscribe" => CallKeys(m, out'.sub) = watched \ subscribed
           /\ out'.err = "unsubscribe" => out'.sub = <<>>
           /\ \A k \in watched \cap subscribed :
                 k \notin CallKeys(m, out'.sub) \cup CallKeys(m, out'.unsub)]_vars

\* context 1 went from {A, B} to {A, C}: the reconciliation unsubscribed one
\* key, subscribed another and left the third subscribed
C2_Witness ==
    /\ out.op = "updateSubscriptions" /\ out.m = "m1" /\ out.err = "none"
    /\ Len(out.unsub) = 1 /\ Len(out.unsub[1]) = 1
    /\ Len(out.sub) = 1 /\ Len(out.sub[1]) = 1
    /\ DOMAIN watchedQueryKeysByContextId["m1"] = {"1"}
    /\ Keys(subscribedQueryKeys["m1"]) = Keys(watchedQueryKeysByContextId["m1"]["1"])
    /\ Cardinality(Keys(subscribedQueryKeys["m1"])) = 2

----------------------------------------------------------------------------
(* C3 - Changes that begin and end between two consecutive reconciliations
   are not seen outside.  At the reconciliation that closes a cycle: a key
   that was read in the cycle, is watched by no context any more and was not
   subscribed is passed to neither callback and stays unsubscribed; a
   subscribed key that a reset dropped in the cycle and a get registered again
   is passed to neither callback and stays subscribed.  A reset that fires
   while a reconciliation is scheduled leaves it scheduled and invokes no
   second deferral, and the scheduled reconciliation then runs once. *)
C3_NetChangeOnly ==
    [][\A m \in Managers :
        /\ (Reconciling(m) /\ pendingSubscriptionUpdate[m]) =>
              LET watched == WatchedKeys(watchedQueryKeysByContextId[m])
                  subscribed == Keys(subscribedQueryKeys[m])
                  passed == CallKeys(m, out'.sub) \cup CallKeys(m, out'.unsub)
              IN /\ \A k \in (ReadKeys(m) \ watched) \ subscribed :
                        k \notin passed /\ k \notin Keys(subscribedQueryKeys'[m])
                 /\ \A k \in ReadKeys(m) \cap dropCycle[m] \cap watched \cap subscribed :
                        k \notin passed /\ k \in Keys(subscribedQueryKeys'[m])
                 /\ deferred[m] = 1 /\ deferred'[m] = 0
        /\ (Resetting /\ pendingSubscriptionUpdate[m]) =>
              /\ pendingSubscriptionUpdate'[m]
              /\ deferred'[m] = deferred[m]
              /\ out'.defer[m] = 0]_vars

\* in one cycle context 1, which held the subscribed "a", was reset, read "a"
\* and "b", was reset again and read "a" only: the reconciliation made no call
C3_Witness ==
    /\ out.op = "updateSubscriptions" /\ out.m = "m1"
    /\ out.sub = <<>> /\ out.unsub = <<>>
    /\ ReadKeys("m1") = {"a", "b"} /\ dropCycle["m1"] = {"a", "b"}
    /\ Keys(subscribedQueryKeys["m1"]) = {"a"}
    /\ DOMAIN watchedQueryKeysByContextId["m1"] = {"1"}
    /\ Keys(watchedQueryKeysByContextId["m1"]["1"]) = {"a"}
    /\ retired = {}

----------------------------------------------------------------------------
(* C4 - Unmount.  The retirement of a context removes its watched entry from
   every manager, schedules a reconciliation of each manager that had one and
   issues no call itself.  The reconciliation that then runs passes every
   subscribed key that a reset dropped and no context watches any more to
   unsubscribe exactly once and removes it from subscribedKeys, and passes no
   key that some context still watches to unsubscribe. *)
C4_Unmount ==
    [][\A m \in Managers :
        /\ out'.op = "componentWillUnmount" =>
              LET c == out'.ctx
              IN /\ c \notin DOMAIN watchedQueryKeysByContextId'[m]
                 /\ out'.unsub = <<>> /\ out'.sub = <<>>
                 /\ c \in DOMAIN watchedQueryKeysByContextId[m] =>
                       /\ pendingSubscriptionUpdate'[m] /\ deferred'[m] = 1
                       /\ Keys(watchedQueryKeysByContextId[m][c]) \subseteq dropCycle'[m]
        /\ (Reconciling(m) /\ pendingSubscriptionUpdate[m]) =>
              LET watched == WatchedKeys(watchedQueryKeysByContextId[m])
              IN /\ \A k \in (Keys(subscribedQueryKeys[m]) \cap dropCycle[m]) \ watched :
                        /\ Times(m, out'.unsub, k) = 1
                        /\ k \notin Keys(subscribedQueryKeys'[m])
                 /\ \A k \in watched : Times(m, out'.unsub, k) = 0]_vars

\* context 1, which watched "a" and "b", was retired while context 2 watched
\* "a": the reconciliation unsubscribed "b" alone
C4_Witness ==
    /\ out.op = "updateSubscriptions" /\ out.m = "m1"
    /\ retired = {"1"}
    /\ readCycle["m1"] = {} /\ dropCycle["m1"] = {"a", "b"}
    /\ out.unsub = <<<<StrQ("b")>>>>
    /\ Keys(subscribedQueryKeys["m1"]) = {"a"}
    /\ DOMAIN watchedQueryKeysByContextId["m1"] = {"2"}
    /\ Keys(watchedQueryKeysByContextId["m1"]["2"]) = {"a"}

----------------------------------------------------------------------------
(* C5 - A get that raises an error (the getter threw, no context while the
   require-context flag is on, or the codec rejected the query) returns
   nothing and changes neither the watched maps, the context map,
   subscribedKeys, the pending flag nor any context's reset list, and invokes
   no deferral function. *)
C5_FailedGetChangesNothing ==
    [][(out'.op = "get" /\ out'.err # "none") =>
        /\ out'.err \in {"getter", "misuse", "codec"}
        /\ out'.ret = <<>>
        /\ UNCHANGED <<watchedQueryKeysByContextId, watchedContexts,
                       subscribedQueryKeys, pendingSubscriptionUpdate,
                       resets, deferred>>
        /\ \A m \in Managers : out'.defer[m] = 0]_vars

\* the render function of a context with no watched entry read a query the
\* codec rejects from a manager with no reconciliation pending
C5_Witness ==
    /\ out.op = "get" /\ out.m = "m2" /\ out.err = "codec"
    /\ out.q = <<PlainObj>> /\ out.getter = <<PlainObj>>
    /\ currentContext = "1" /\ out.ctx = None
    /\ "1" \notin DOMAIN watchedQueryKeysByContextId["m2"]
    /\ ~pendingSubscriptionUpdate["m2"]

(* C6 - Context requirement.  A get with no explicit and no ambient context:
   while the require-context flag is on it fails and returns nothing; while
   the flag is off it does not fail for want of a context: it calls the getter
   once, with the query, and returns exactly the getter's value (or lets the
   getter's own error through), and registers nothing.  The flag is read at
   each call. *)
C6_ContextRequirement ==
    [][GettingWithoutContext =>
        LET q == out'.q[1]
        IN /\ noGetOutsideContext => out'.err # "none" /\ out'.ret = <<>>
           /\ ~noGetOutsideContext =>
                 /\ out'.getter = <<q>>
                 /\ \/ out'.err = "none" /\ out'.ret = <<GetterValue(out'.m, q)>>
                    \/ out'.err = "getter" /\ out'.ret = <<>>
                 /\ UNCHANGED <<watchedQueryKeysByContextId, watchedContexts,
                                pendingSubscriptionUpdate, resets, deferred>>]_vars

\* the flag, on by default, was switched off and a get outside any context
\* returned the getter's value
C6_Witness ==
    /\ out.op = "get" /\ out.ctx = None /\ currentContext = None
    /\ ~noGetOutsideContext
    /\ out.err = "none"
    /\ out.q = <<Undefined>> /\ out.getter = <<Undefined>>
    /\ out.ret = <<GetterValue("m2", Undefined)>>

(* C7 - as claimed: while the require-context flag is on, a get with no
   context fails without calling the getter. *)
C7_AsClaimed ==
    [][(GettingWithoutContext /\ noGetOutsideContext) => out'.getter = <<>>]_vars

(* C7 - amended: while the require-context flag is on, a get with no context
   fails, but only after it has called the getter, once, with the query; it
   raises the misuse error when the getter returned and lets the getter's own
   error through when the getter threw. *)
C7_GetterCalledFirst ==
    [][(GettingWithoutContext /\ noGetOutsideContext) =>
        /\ out'.getter = out'.q
        /\ out'.err \in {"misuse", "getter"}
        /\ out'.ret = <<>>]_vars

\* a get outside any context failed for want of a context after the getter
\* had been called with its query
C7_Witness ==
    /\ out.op = "get" /\ out.ctx = None /\ currentContext = None
    /\ noGetOutsideContext
    /\ out.err = "misuse"
    /\ out.getter = <<KeyedObj("a")>>

----------------------------------------------------------------------------
\* context c watches, in manager m, a query that the parameter of
\* updateQueries matches: any query (no parameter), a query the predicate
\* accepts, or a query with the key of an element of the list
Matches(m, param, c) ==
    /\ c \in DOMAIN watchedQueryKeysByContextId[m]
    /\ \E e \in Range(watchedQueryKeysByContextId[m][c]) :
          CASE param.kind = "none" -> TRUE
            [] param.kind = "fn" -> e.query \in param.accepts
            [] OTHER -> \E p \in Range(param.list) : KeyOf(m, p) = e.key

(* C8 - as claimed: updateQueries() invokes forceUpdate exactly once on every
   context that watches at least one query of the manager, and
   updateQueries(predicate) exactly once on every context with a watched query
   the predicate accepts and on no other context; the empty key included. *)
C8_AsClaimed ==
    (out.op = "updateQueries" /\ out.param.kind \in {"none", "fn"}) =>
        \A c \in Contexts :
            out.force[c] = (IF Matches(out.m, out.param, c) THEN 1 ELSE 0)

(* C9 - as claimed: updateQueries(list), for a list of queries the codec
   accepts, invokes forceUpdate exactly once on every context that watches a
   query with the key of some element of the list and on no other context;
   falsy elements included; an empty list matches no context. *)
C9_AsClaimed ==
    (/\ out.op = "updateQueries" /\ out.param.kind = "list"
     /\ Range(out.param.list) \subseteq LegalQueriesOf(out.m)) =>
        \A c \in Contexts :
            out.force[c] = (IF Matches(out.m, out.param, c) THEN 1 ELSE 0)

----------------------------------------------------------------------------
(* C10 - At most one reconciliation is outstanding per manager.  In every
   state the pending flag of a manager is true exactly when one callback
   handed to the deferral function has not run yet, and never more than one
   has not; the flag becomes true only in a step that invokes the deferral
   function once and false only when the reconciliation starts; a get with a
   context or a reset that happens while the flag is true invokes no deferral
   function. *)
C10_OneOutstanding ==
    [][\A m \in Managers :
        /\ pendingSubscriptionUpdate[m] <=> deferred[m] = 1
        /\ pendingSubscriptionUpdate'[m] <=> deferred'[m] = 1
        /\ deferred'[m] <= 1
        /\ (~pendingSubscriptionUpdate[m] /\ pendingSubscriptionUpdate'[m]) =>
              out'.defer[m] = 1
        /\ (pendingSubscriptionUpdate[m] /\ ~pendingSubscriptionUpdate'[m]) =>
              Reconciling(m)
        /\ Reconciling(m) => ~pendingSubscriptionUpdate'[m]
        /\ ((GettingWithContext(m) \/ Resetting) /\ pendingSubscriptionUpdate[m]) =>
              /\ out'.defer[m] = 0
              /\ deferred'[m] = deferred[m]
              /\ pendingSubscriptionUpdate'[m]]_vars

\* context 1 was reset and read a query while the reconciliation scheduled
\* by context 2 was still outstanding: the deferral function was not invoked
C10_Witness ==
    /\ out.op = "get" /\ out.m = "m1" /\ out.err = "none"
    /\ currentContext = "1"
    /\ out.defer["m1"] = 0
    /\ pendingSubscriptionUpdate["m1"] /\ deferred["m1"] = 1
    /\ dropCycle["m1"] # {}
    /\ "2" \in DOMAIN watchedQueryKeysByContextId["m1"]

----------------------------------------------------------------------------
(* C11 - as claimed: in every state in which no get has happened since the
   last reconciliation of a manager ran, the keys of its subscribedKeys are
   all watched by some context. *)
C11_AsClaimed ==
    \A m \in Managers :
        ~(pendingSubscriptionUpdate[m] /\ readCycle[m] # {}) =>
            Keys(subscribedQueryKeys[m]) \subseteq
                WatchedKeys(watchedQueryKeysByContextId[m])

(* C11 - amended: the keys of subscribedKeys that no context watches are keys
   that a context reset (the start of a render pass, or retirement) has
   dropped since the last reconciliation of the manager ran; in a state in
   which no reset has dropped a key since then, gets or no gets, every key of
   subscribedKeys is watched by some context. *)
C11_SubscribedWatchedUnlessReset ==
    \A m \in Managers :
        LET unwatched == Keys(subscribedQueryKeys[m])
                            \ WatchedKeys(watchedQueryKeysByContextId[m])
        IN /\ pendingSubscriptionUpdate[m] => unwatched \subseteq dropCycle[m]
           /\ ~pendingSubscriptionUpdate[m] => unwatched = {}

\* "a" is subscribed and watched, context 2 has read "" since the last
\* reconciliation, which is still to run, and no reset has happened since
C11_Witness ==
    /\ pendingSubscriptionUpdate["m1"]
    /\ readCycle["m1"] = {StrQ("")} /\ dropCycle["m1"] = {}
    /\ Keys(subscribedQueryKeys["m1"]) = {"a"}
    /\ WatchedKeys(watchedQueryKeysByContextId["m1"]) = {"a", ""}

----------------------------------------------------------------------------
(* C12 - Unsubscribes before subscribes.  Every reconciliation issues at most
   one unsubscribe call and at most one subscribe call, and an unsubscribe
   call comes before a subscribe call.  In a reconciliation that has keys to
   unsubscribe and keys to subscribe, at the time of the unsubscribe call
   subscribedKeys has lost all the keys to unsubscribe and gained none of the
   keys to subscribe, and when that call returns, at the time of the subscribe
   call, subscribedKeys has gained all the keys to subscribe. *)
C12_UnsubscribeFirst ==
    [][\A m \in Managers : Reconciling(m) =>
        LET watched == WatchedKeys(watchedQueryKeysByContextId[m])
            subscribed == Keys(subscribedQueryKeys[m])
            calls == out'.calls
        IN /\ Len(out'.unsub) <= 1 /\ Len(out'.sub) <= 1
           /\ Len(calls) = Len(out'.unsub) + Len(out'.sub)
           /\ \A i \in 1..Len(calls) : \A j \in 1..Len(calls) :
                 (calls[i].fn = "unsubscribe" /\ calls[j].fn = "subscribe") => i < j
           /\ (subscribed \ watched # {} /\ watched \ subscribed # {}) =>
                 /\ calls[1].fn = "unsubscribe"
                 /\ calls[1].arg = out'.unsub[1]
                 /\ calls[1].keys = subscribed \cap watched
                 /\ out'.err # "unsubscribe" =>
                       /\ Len(calls) = 2
                       /\ calls[2].fn = "subscribe"
                       /\ calls[2].arg = out'.sub[1]
                       /\ calls[2].keys = watched]_vars

\* a reconciliation replaced the subscribed "b" by the watched "" and left "a"
\* subscribed: unsubscribe was called when only "a" was subscribed
C12_Witness ==
    /\ out.op = "updateSubscriptions" /\ out.m = "m1" /\ out.err = "none"
    /\ Len(out.calls) = 2
    /\ out.calls[1] = [fn |-> "unsubscribe", arg |-> <<StrQ("b")>>, keys |-> {"a"}]
    /\ out.calls[2] = [fn |-> "subscribe", arg |-> <<StrQ("")>>, keys |-> {"a", ""}]
    /\ Keys(subscribedQueryKeys["m1"]) = {"a", ""}

----------------------------------------------------------------------------
(* C13 - The lists of the calls.  Every list a reconciliation passes to
   subscribe or unsubscribe is non-empty and holds at most one query per key;
   its elements are query values, not keys: an element passed to subscribe is
   the query some context's watched entry holds under its key, an element
   passed to unsubscribe is the query subscribedKeys held under its key; and
   no key is in the unsubscribe list and in the subscribe list of the same
   reconciliation.  No other operation makes such a call. *)
C13_CallLists ==
    [][\A m \in Managers :
        /\ Reconciling(m) =>
              /\ \A i \in 1..Len(out'.sub) : Len(out'.sub[i]) > 0
              /\ \A i \in 1..Len(out'.unsub) : Len(out'.unsub[i]) > 0
              /\ \A k \in AllKeys(m) :
                    /\ Times(m, out'.sub, k) <= 1
                    /\ Times(m, out'.unsub, k) <= 1
                    /\ Times(m, out'.sub, k) + Times(m, out'.unsub, k) <= 1
              /\ \A q \in CallQueries(out'.sub) :
                    /\ q \in LegalQueriesOf(m)
                    /\ Entry(KeyOf(m, q), q) \in
                          Range(AllWatched(watchedQueryKeysByContextId[m]))
              /\ \A q \in CallQueries(out'.unsub) :
                    /\ q \in LegalQueriesOf(m)
                    /\ Entry(KeyOf(m, q), q) \in Range(subscribedQueryKeys[m])
        /\ out'.op # "updateSubscriptions" => out'.sub = <<>> /\ out'.unsub = <<>>]_vars

\* both contexts watch "a" and "", in different orders, and "b" was
\* subscribed: one reconciliation subscribed "a" and "" once each and
\* unsubscribed "b"
C13_Witness ==
    /\ out.op = "updateSubscriptions" /\ out.m = "m1"
    /\ out.sub = << <<StrQ("a"), StrQ("")>> >>
    /\ out.unsub = << <<StrQ("b")>> >>
    /\ DOMAIN watchedQueryKeysByContextId["m1"] = Contexts
    /\ Values(watchedQueryKeysByContextId["m1"]["1"]) = <<StrQ("a"), StrQ("")>>
    /\ Values(watchedQueryKeysByContextId["m1"]["2"]) = <<StrQ(""), StrQ("a")>>

----------------------------------------------------------------------------
\* the state of manager m in world s, and in the current state
ManagerIn(s, m) == <<s.w[m], s.wc[m], s.sk[m], s.p[m], s.d[m]>>
ManagerNow(m) ==
    <<watchedQueryKeysByContextId[m], watchedContexts[m], subscribedQueryKeys[m],
      pendingSubscriptionUpdate[m], deferred[m]>>
\* manager x holds only queries of its own domain
OwnQueries(x) ==
    /\ \A e \in Range(AllWatched(watchedQueryKeysByContextId[x])) :
          e.query \in LegalQueriesOf(x) /\ e.key = KeyOf(x, e.query)
    /\ \A e \in Range(subscribedQueryKeys[x]) :
          e.query \in LegalQueriesOf(x) /\ e.key = KeyOf(x, e.query)
\* the reset callback of manager m, and its reconciliation, leave manager x as
\* it is
ResetLeaves(m, x) ==
    \A c \in Contexts :
        ManagerIn(reset(World(Out("reset", m, c, <<>>)), m, c), x) = ManagerNow(x)
\* the reconciliations of m and x from the current state, in either order,
\* make the same calls and end in the same state
Commute(m, x) ==
    LET o == Out("updateSubscriptions", "-", None, <<>>)
        rm == updateSubscriptions(World(o), m, FALSE, FALSE)
        rx == updateSubscriptions(World(o), x, FALSE, FALSE)
        rmx == updateSubscriptions([rm EXCEPT !.o = o], x, FALSE, FALSE)
        rxm == updateSubscriptions([rx EXCEPT !.o = o], m, FALSE, FALSE)
    IN /\ rmx.o.calls = rx.o.calls
       /\ rxm.o.calls = rm.o.calls
       /\ \A y \in Managers : ManagerIn(rmx, y) = ManagerIn(rxm, y)

(* C14 - Managers are independent.  A get or a reconciliation of one manager
   leaves the watched map, context map, subscribedKeys, pending flag and
   outstanding deferrals of the other manager unchanged and does not invoke
   the other's deferral function; so does a manager's reset callback, and a
   context reset changes only the managers registered with the context.  Each
   manager holds, and passes to subscribe and unsubscribe, only queries of
   its own domain (the queries passed to its own get), also where the two
   managers use the same key.  The reconciliations of the two managers, run
   in either order, make the same calls and end in the same state. *)
C14_Independent ==
    /\ [](\A m \in Managers : \A x \in Managers \ {m} :
             OwnQueries(m) /\ ResetLeaves(m, x) /\ Commute(m, x))
    /\ [][\A x \in Managers :
            /\ (out'.op \in {"get", "updateSubscriptions"} /\ out'.m # x) =>
                  /\ ManagerNow(x)' = ManagerNow(x)
                  /\ out'.defer[x] = 0
            /\ (Resetting /\ x \notin Range(resets[out'.ctx])) =>
                  /\ ManagerNow(x)' = ManagerNow(x)
                  /\ out'.defer[x] = 0
            /\ Reconciling(x) =>
                  CallQueries(out'.sub) \cup CallQueries(out'.unsub)
                      \subseteq LegalQueriesOf(x)]_vars

\* context 1 reads "a" from m1 and an object with the key "a" from m2, context
\* 2 reads "" and "a" from m1 and undefined, of key "", from m2; the
\* reconciliation of m2 has run and subscribed its own two queries while that
\* of m1 is still outstanding
C14_Witness ==
    /\ out.op = "updateSubscriptions" /\ out.m = "m2"
    /\ out.sub = << <<KeyedObj("a"), Undefined>> >>
    /\ pendingSubscriptionUpdate["m1"] /\ ~pendingSubscriptionUpdate["m2"]
    /\ subscribedQueryKeys["m1"] = <<>>
    /\ DOMAIN watchedQueryKeysByContextId["m1"] = Contexts
    /\ Values(watchedQueryKeysByContextId["m1"]["1"]) = <<StrQ("a")>>
    /\ Values(watchedQueryKeysByContextId["m1"]["2"]) = <<StrQ(""), StrQ("a")>>
    /\ resets["1"] = <<"m2", "m1">>

----------------------------------------------------------------------------
(* C15 - A throwing callback does not wedge scheduling.  A reconciliation in
   which subscribe or unsubscribe throws leaves the pending flag false and no
   deferred callback outstanding.  Whenever the flag is false, and so after a
   failed reconciliation, a get with a context, and a context reset that
   fires the manager's handler, invokes the deferral function once and sets
   the flag; the reconciliation that then runs works on the state it finds:
   it unsubscribes the subscribed keys no context watches and, unless that
   call throws, subscribes the watched keys that are not subscribed. *)
C15_NotWedged ==
    [][\A m \in Managers :
        /\ (Reconciling(m) /\ out'.err # "none") =>
              /\ out'.err \in {"subscribe", "unsubscribe"}
              /\ ~pendingSubscriptionUpdate'[m] /\ deferred'[m] = 0
        /\ ((GettingWithContext(m) \/ (Resetting /\ m \in Range(resets[out'.ctx])))
              /\ ~pendingSubscriptionUpdate[m]) =>
              /\ out'.defer[m] = 1
              /\ pendingSubscriptionUpdate'[m] /\ deferred'[m] = 1
        /\ (Reconciling(m) /\ Keys(subscribedQueryKeys[m])
                                 # WatchedKeys(watchedQueryKeysByContextId[m])) =>
              /\ out'.calls # <<>>
              /\ out'.err = "none" =>
                    Keys(subscribedQueryKeys'[m])
                        = WatchedKeys(watchedQueryKeysByContextId[m])]_vars

\* "a" is watched and not subscribed although no get or reset of this cycle
\* touched it: the reconciliation meant to subscribe it ended in a throwing
\* unsubscribe.  The get of "" by context 2 that came next invoked the deferral
\* function
C15_Witness ==
    /\ out.op = "get" /\ out.m = "m1" /\ out.q = <<StrQ("")>> /\ currentContext = "2"
    /\ out.defer["m1"] = 1 /\ pendingSubscriptionUpdate["m1"]
    /\ readCycle["m1"] = {StrQ("")} /\ dropCycle["m1"] = {}
    /\ subscribedQueryKeys["m1"] = <<>>
    /\ WatchedKeys(watchedQueryKeysByContextId["m1"]) = {"a", ""}

----------------------------------------------------------------------------
(* C16 - No rollback, no retry.  When unsubscribe throws, the keys of its
   batch were in subscribedKeys before the reconciliation and are not after
   it; when subscribe throws, the keys of its batch are in subscribedKeys
   after the reconciliation.  For as long as no context's set of watched keys
   changes afterwards, the keys of a batch unsubscribe threw on stay out of
   subscribedKeys, the keys of a batch subscribe threw on stay in it, and no
   reconciliation passes a key to the callback that threw on it. *)
C16_NoRollbackNoRetry ==
    /\ [](\A m \in Managers :
             /\ failedBatch[m].unsubscribe \cap Keys(subscribedQueryKeys[m]) = {}
             /\ failedBatch[m].subscribe \subseteq Keys(subscribedQueryKeys[m]))
    /\ [][\A m \in Managers : Reconciling(m) =>
            /\ out'.err = "unsubscribe" =>
                  /\ CallKeys(m, out'.unsub) \subseteq Keys(subscribedQueryKeys[m])
                  /\ CallKeys(m, out'.unsub) \cap Keys(subscribedQueryKeys'[m]) = {}
                  /\ CallKeys(m, out'.unsub) \subseteq failedBatch'[m].unsubscribe
            /\ out'.err = "subscribe" =>
                  /\ CallKeys(m, out'.sub) \cap Keys(subscribedQueryKeys[m]) = {}
                  /\ CallKeys(m, out'.sub) \subseteq Keys(subscribedQueryKeys'[m])
                  /\ CallKeys(m, out'.sub) \subseteq failedBatch'[m].subscribe
            /\ CallKeys(m, out'.unsub) \cap failedBatch[m].unsubscribe = {}
            /\ CallKeys(m, out'.sub) \cap failedBatch[m].subscribe = {}]_vars

\* subscribe threw on the batch {"a", "b"}; then context 1 was handed "a"
\* again, which changed no watched set, and the reconciliation that followed
\* made no call
C16_Witness ==
    /\ out.op = "updateSubscriptions" /\ out.m = "m1" /\ out.err = "none"
    /\ out.calls = <<>>
    /\ failedBatch["m1"].subscribe = {"a", "b"}
    /\ readCycle["m1"] = {StrQ("a")} /\ dropCycle["m1"] = {}
    /\ Keys(subscribedQueryKeys["m1"]) = {"a", "b"}

----------------------------------------------------------------------------
\* how often x is an element of the sequence seq
Count(seq, x) == Cardinality({i \in 1..Len(seq) : seq[i] = x})

(* C17 - as claimed: in every state, for each manager and each context, the
   manager's reset handler is in the context's list of pending resets exactly
   once if the manager has a watched entry for the context and not at all
   otherwise. *)
C17_AsClaimed ==
    \A m \in Managers : \A c \in Contexts :
        Count(resets[c], m) =
            (IF c \in DOMAIN watchedQueryKeysByContextId[m] THEN 1 ELSE 0)

----------------------------------------------------------------------------
(* C18 - Lockstep.  In every state the context-dispatch map and the watched
   map of a manager have the same context ids and every watched entry holds
   at least one key; updateQueries never raises the internal-consistency
   error ("unable to locate watched context"). *)
C18_Lockstep ==
    /\ \A m \in Managers :
          /\ DOMAIN watchedQueryKeysByContextId[m] = watchedContexts[m]
          /\ \A c \in DOMAIN watchedQueryKeysByContextId[m] :
                Len(watchedQueryKeysByContextId[m][c]) >= 1
    /\ out.op = "updateQueries" => out.err # "internal"

\* updateQueries() force-updated context 1, which watches two keys and is in
\* both maps, in a cycle in which a reset had removed a context from both
C18_Witness ==
    /\ out.op = "updateQueries" /\ out.m = "m1" /\ out.param.kind = "none"
    /\ out.err = "none"
    /\ out.force = [c \in Contexts |-> IF c = "1" THEN 1 ELSE 0]
    /\ watchedContexts["m1"] = {"1"}
    /\ Keys(watchedQueryKeysByContextId["m1"]["1"]) = {"a", ""}
    /\ currentContext = None
    /\ dropCycle["m1"] # {}

----------------------------------------------------------------------------
(* C19 - as claimed: every reset() of a context, at the start of a render
   pass or at retirement, invokes each callback of the pending list once, in
   registration order and with the context as argument, and leaves the list
   empty, so that a callback fires again only after a new registration; on an
   empty list it invokes nothing and changes nothing. *)
C19_AsClaimed ==
    [][Resetting =>
        LET c == out'.ctx
            list == resets[c]
        IN /\ Len(out'.fired) = Len(list)
           /\ \A i \in 1..Len(list) :
                 out'.fired[i].cb = list[i] /\ out'.fired[i].arg = c
           /\ resets'[c] = <<>>
           /\ \A x \in Contexts \ {c} : resets'[x] = resets[x]
           /\ list = <<>> =>
                 UNCHANGED <<watchedQueryKeysByContextId, watchedContexts,
                             subscribedQueryKeys, pendingSubscriptionUpdate,
                             deferred>>]_vars

----------------------------------------------------------------------------
(* C20 - The ambient current context.  A render pass makes its context the
   current one before its resets fire: every reset callback it invokes sees
   that context as the ambient one, and it stays current, through the gets of
   the render function, until the render function returns or throws, which
   sets it to null; a render pass whose reset throws leaves it null; no other
   step changes it.  A get with no explicit context made in the step after a
   render pass failed sees no ambient context: with the require-context flag
   on it fails and registers nothing. *)
C20_AmbientContext ==
    [][/\ out'.op = "render" =>
             /\ currentContext = None
             /\ \A i \in 1..Len(out'.fired) : out'.fired[i].ambient = out'.ctx
             /\ currentContext' = (IF out'.err = "none" THEN out'.ctx ELSE None)
       /\ out'.op = "renderEnd" =>
             /\ currentContext = out'.ctx
             /\ currentContext' = None
       /\ out'.op \notin {"render", "renderEnd"} =>
             /\ currentContext' = currentContext
             /\ \A i \in 1..Len(out'.fired) : out'.fired[i].ambient = currentContext
       /\ (out'.op = "get" /\ out'.ctx = None /\ out'.err = "none"
             /\ currentContext # None) =>
             currentContext \in DOMAIN watchedQueryKeysByContextId'[out'.m]
       /\ (out.op \in {"render", "renderEnd"} /\ out.err # "none"
             /\ out'.op = "get" /\ out'.ctx = None) =>
             /\ currentContext = None
             /\ noGetOutsideContext => out'.err = "misuse"
             /\ UNCHANGED <<watchedQueryKeysByContextId, watchedContexts,
                            resets, pendingSubscriptionUpdate>>]_vars

\* a render pass of context 1 failed in its reset, after the manager's handler
\* had run and before the list was emptied; the get made next, outside any
\* render, found no ambient context
C20_Witness ==
    /\ out.op = "get" /\ out.ctx = None /\ out.err = "misuse"
    /\ currentContext = None
    /\ resets["1"] = <<"m1", "cb">>
    /\ "1" \notin DOMAIN watchedQueryKeysByContextId["m1"]

----------------------------------------------------------------------------
\* context c watches key k of manager m
Watches(m, c, k) ==
    c \in DOMAIN watchedQueryKeysByContextId[m]
        /\ k \in Keys(watchedQueryKeysByContextId[m][c])
\* the step just taken was a reconciliation of m that passed k to unsubscribe
Unsubscribed(m, k) ==
    out.op = "updateSubscriptions" /\ out.m = m /\ k \in CallKeys(m, out.unsub)

(* C21 - Liveness.  Where every render ends, every callback handed to the
   deferral function is eventually run and no callback throws: a key that a
   context watches is eventually in subscribedKeys unless the context is
   reset first, and it is there after the next reconciliation that runs,
   which leaves subscribedKeys with exactly the watched keys; a subscribed key
   that no context watches is eventually passed to unsubscribe and removed
   from subscribedKeys, unless a context comes to watch it again first. *)
C21_Liveness ==
    /\ \A c \in Contexts : \A k \in AllKeys("m1") :
          Watches("m1", c, k) ~>
              (k \in Keys(subscribedQueryKeys["m1"]) \/ ~Watches("m1", c, k))
    /\ \A k \in AllKeys("m1") :
          (k \in Keys(subscribedQueryKeys["m1"])
              /\ k \notin WatchedKeys(watchedQueryKeysByContextId["m1"])) ~>
              \/ Unsubscribed("m1", k) /\ k \notin Keys(subscribedQueryKeys["m1"])
              \/ k \in WatchedKeys(watchedQueryKeysByContextId["m1"])
    /\ [][Reconciling("m1") =>
            Keys(subscribedQueryKeys'["m1"])
                = WatchedKeys(watchedQueryKeysByContextId["m1"])]_vars

\* the reconciliation unsubscribed "", which context 2 had watched before it
\* was retired, and left "a", which context 1 watches, subscribed
C21_Witness ==
    /\ Unsubscribed("m1", "") /\ "" \notin Keys(subscribedQueryKeys["m1"])
    /\ Watches("m1", "1", "a") /\ "a" \in Keys(subscribedQueryKeys["m1"])
    /\ retired = {"2"}

----------------------------------------------------------------------------
\* the reconciliation of m run from the current state
FirstRun(m, unsubThrows, subThrows) ==
    updateSubscriptions(World(Out("updateSubscriptions", m, None, <<>>)),
                        m, unsubThrows, subThrows)
\* the reconciliation of m run again from the state s that a run has left,
\* with no get and no reset in between
SecondRun(s, m, unsubThrows, subThrows) ==
    updateSubscriptions([s EXCEPT !.o = Out("updateSubscriptions", m, None, <<>>)],
                        m, unsubThrows, subThrows)
\* the second run makes no call, raises no error and leaves every manager as
\* the first run left it
RunsAsOnce(first, m) ==
    \A ut \in BOOLEAN : \A st \in BOOLEAN :
        LET second == SecondRun(first, m, ut, st)
        IN /\ second.o.calls = <<>>
           /\ second.o.err = "none"
           /\ \A x \in Managers : ManagerIn(second, x) = ManagerIn(first, x)
\* a reconciliation that runs when the watched keys are the subscribed keys
\* makes no call and changes nothing but the pending flag (and was the one
\* outstanding callback)
StaleIsNoOp ==
    [][\A m \in Managers :
        (Reconciling(m) /\ WatchedKeys(watchedQueryKeysByContextId[m])
                              = Keys(subscribedQueryKeys[m])) =>
            /\ out'.calls = <<>> /\ out'.sub = <<>> /\ out'.unsub = <<>>
            /\ out'.err = "none"
            /\ subscribedQueryKeys' = subscribedQueryKeys
            /\ watchedQueryKeysByContextId' = watchedQueryKeysByContextId
            /\ watchedContexts' = watchedContexts
            /\ resets' = resets
            /\ ~pendingSubscriptionUpdate'[m]
            /\ \A x \in Managers \ {m} :
                  pendingSubscriptionUpdate'[x] = pendingSubscriptionUpdate[x]]_vars

\* C22 as the specification words it: a second run in a row is a no-op after
\* every first run
C22_AsClaimed ==
    /\ StaleIsNoOp
    /\ [](\A m \in Managers : \A ut \in BOOLEAN : \A st \in BOOLEAN :
             RunsAsOnce(FirstRun(m, ut, st), m))

(* C22 - A stale reconciliation is a no-op.  A reconciliation that runs when
   the union of the watched keys equals the keys of subscribedKeys calls
   neither subscribe nor unsubscribe and changes nothing but the pending
   flag.  A reconciliation run twice in a row, with no get and no reset in
   between, gives the state and the calls of running it once, provided the
   unsubscribe call of the first run did not throw: the second run then finds
   the watched keys equal to the subscribed keys.  Where the unsubscribe call
   of the first run threw, the second run calls unsubscribe no more and
   passes to subscribe the watched keys the first run left unsubscribed. *)
C22_StaleIsNoOp ==
    /\ StaleIsNoOp
    /\ [](\A m \in Managers : \A ut \in BOOLEAN : \A st \in BOOLEAN :
             LET first == FirstRun(m, ut, st)
                 second == SecondRun(first, m, FALSE, FALSE)
             IN /\ first.o.err # "unsubscribe" =>
                      /\ WatchedKeys(first.w[m]) = Keys(first.sk[m])
                      /\ RunsAsOnce(first, m)
                /\ first.o.err = "unsubscribe" =>
                      /\ second.o.unsub = <<>>
                      /\ CallKeys(m, second.o.sub)
                            = WatchedKeys(first.w[m]) \ Keys(first.sk[m])
                      /\ Keys(second.sk[m]) = WatchedKeys(first.w[m]))

\* context 1, which held the subscribed "a", started a new render pass and
\* read "a" again: the reconciliation that was scheduled found the watched
\* keys equal to the subscribed keys and made no call
C22_Witness ==
    /\ out.op = "updateSubscriptions" /\ out.m = "m1" /\ out.calls = <<>>
    /\ ReadKeys("m1") = {"a"} /\ dropCycle["m1"] = {"a"}
    /\ Keys(subscribedQueryKeys["m1"]) = {"a"}
    /\ WatchedKeys(watchedQueryKeysByContextId["m1"]) = {"a"}
    /\ ~pendingSubscriptionUpdate["m1"] /\ deferred["m1"] = 0

----------------------------------------------------------------------------
\* no call of subscribe or unsubscribe of m has thrown since the watched keys
\* of m last changed; it holds all along where no callback has ever thrown
NoFailure(m) == failedBatch[m] = NoBatches

(* C23 - Quiescent equality.  Where no subscribe or unsubscribe call has
   thrown (it is enough that none has thrown since the watched keys last
   changed), every state in which the pending flag is false has the keys of
   subscribedKeys equal to the union of the watched keys of all contexts (a
   reconciliation is one step, so no state lies inside one).  Every step that
   changes a manager's watched map or context map, a registration by get or a
   removal by reset, leaves the manager's pending flag true and one deferred
   callback outstanding. *)
C23_QuiescentEquality ==
    /\ [](\A m \in Managers :
             (NoFailure(m) /\ ~pendingSubscriptionUpdate[m]) =>
                 Keys(subscribedQueryKeys[m])
                     = WatchedKeys(watchedQueryKeysByContextId[m]))
    /\ [][\A m \in Managers :
            (\/ watchedQueryKeysByContextId'[m] # watchedQueryKeysByContextId[m]
             \/ watchedContexts'[m] # watchedContexts[m]) =>
                /\ out'.op \in {"get", "render", "componentWillUnmount"}
                /\ pendingSubscriptionUpdate'[m]
                /\ deferred'[m] = 1]_vars

\* contexts 1 and 2 had "a" and "" subscribed; context 2 was retired, the
\* reconciliation unsubscribed "" without a failure and the manager is
\* quiescent again with "a" alone watched and subscribed
C23_Witness ==
    /\ ~pendingSubscriptionUpdate["m1"] /\ NoFailure("m1")
    /\ out.op = "updateSubscriptions" /\ out.m = "m1" /\ out.err = "none"
    /\ out.sub = <<>> /\ out.unsub = << <<StrQ("")>> >>
    /\ Keys(subscribedQueryKeys["m1"]) = {"a"}
    /\ WatchedKeys(watchedQueryKeysByContextId["m1"]) = {"a"}
    /\ retired = {"2"}

----------------------------------------------------------------------------
\* the keys of one call
BatchKeys(m, call) == {KeyOf(m, q) : q \in Range(call.arg)}
\* the calls, made in their order from a history in which latest holds the
\* keys whose latest call was a subscribe, keep the alternation: a subscribe
\* names only keys whose latest call was no subscribe, an unsubscribe only
\* keys whose latest call was a subscribe, and no call names a key twice
RECURSIVE Alternating(_, _, _)
Alternating(m, calls, latest) ==
    \/ calls = <<>>
    \/ /\ \A k \in BatchKeys(m, Head(calls)) : Times(m, <<Head(calls).arg>>, k) = 1
       /\ Head(calls).fn = "subscribe" => BatchKeys(m, Head(calls)) \cap latest = {}
       /\ Head(calls).fn = "unsubscribe" => BatchKeys(m, Head(calls)) \subseteq latest
       /\ Alternating(m, Tail(calls), NoteCalls(m, <<Head(calls)>>, latest))

(* C24 - Per-key alternation.  For every manager and every key the external
   calls that name the key alternate subscribe, unsubscribe, subscribe, ...
   and start with subscribe: a key is passed to subscribe only if it has been
   passed to no call yet or its latest call was an unsubscribe, and to
   unsubscribe only if its latest call was a subscribe; no call names a key
   twice, and only a reconciliation makes calls.  A key is in subscribedKeys
   exactly when its latest call was a subscribe.  This holds where no
   callback throws, and also where one does: a call that throws counts as
   made. *)
C24_Alternation ==
    /\ [](\A m \in Managers : Keys(subscribedQueryKeys[m]) = latestSubscribed[m])
    /\ [][\A m \in Managers :
            /\ out'.m = m => Alternating(m, out'.calls, latestSubscribed[m])
            /\ out'.op # "updateSubscriptions" => out'.calls = <<>>]_vars

\* a reconciliation of m1 passed "a", whose latest call was a subscribe, to
\* unsubscribe and then "b" to subscribe: "b" is subscribed, "a" is not
C24_Witness ==
    /\ out.op = "updateSubscriptions" /\ out.m = "m1" /\ out.err = "none"
    /\ Len(out.calls) = 2
    /\ out.calls[1].fn = "unsubscribe" /\ out.calls[1].arg = <<StrQ("a")>>
    /\ out.calls[1].keys = {}
    /\ out.calls[2].fn = "subscribe" /\ out.calls[2].arg = <<StrQ("b")>>
    /\ latestSubscribed["m1"] = {"b"}
    /\ Keys(subscribedQueryKeys["m1"]) = {"b"}

====
